---- MODULE Spec2Model ----
(***************************************************************************)
(* Model of oadp-operator-bundle/update_csv_bundle.py: one run of main(),  *)
(* i.e. OADPCSVUpdater.update_csv over a mapping file (relatedImages.yml), *)
(* a primary document (the CSV manifest), an optional secondary document   *)
(* (annotations) and optional patch files.                                 *)
(*                                                                         *)
(* Strings are sequences of tokens (<<"velero", "-", "plugin">>), so that  *)
(* str.replace("-", "_") is computed token by token; the empty string is   *)
(* <<>>.  A Python dict whose key order matters (a relatedImages record,   *)
(* an env entry, image_map) is a sequence of <<key, value>> pairs with     *)
(* distinct keys, in insertion order.                                      *)
(***************************************************************************)
EXTENDS Naturals, Sequences, FiniteSets

VARIABLES
    argv,                 \* args after main()'s defaulting (lines 550-562)
    fs,                   \* path -> file content
    clock,                \* datetime.now(), in seconds
    pc,                   \* position in main() / update_csv()
    image_map,            \* name -> image (insertion ordered)
    env_var_map,          \* env_var -> image
    normalized_name_map,  \* normalized name -> original name
    csv_data,             \* the primary document in memory
    annotations_data,     \* the secondary document in memory
    loaded,               \* csv_data as load_csv_manifest returned it
    out,                  \* the kinds of lines printed so far
    ri_updated,           \* "Updating relatedImage" reports of this run
    env_updated,          \* "Updating env var" reports of this run
    written,              \* paths dump_csv_manifest wrote in this run
    exc,                  \* the exception propagating, "none" if none
    exit_code,            \* Exited(code) once the process has ended, NoExit before
    run,                  \* 1 for the first run, 2 for a re-run on its output
    previous              \* what the first run reported, once it is re-run

vars == <<argv, fs, clock, pc, image_map, env_var_map, normalized_name_map,
          csv_data, annotations_data, loaded, out, ri_updated, env_updated,
          written, exc, exit_code, run, previous>>

-----------------------------------------------------------------------------
(* Bounds of the explored inputs *)

MaxEntries == 2     \* entries of a mapping file
MaxRecords == 2     \* records of a spec.relatedImages list

-----------------------------------------------------------------------------
(* Python values *)

NoExit == <<>>                        \* exit_code of a running process
Exited(code) == <<code>>              \* exit_code after sys.exit(code) or a return
NoPath == <<>>                        \* an option that was not given (None)
EmptyStr == <<>>

Absent == [tag |-> "absent"]          \* the key is not in the mapping
Null == [tag |-> "null"]              \* the key is there with a null value
StrVal(s) == [tag |-> "str", val |-> s]
ListOf(items) == [tag |-> "list", items |-> items]

\* Python truthiness of a document node: None, [] and "" are falsy.
Truthy(node) ==
    CASE node.tag = "null" -> FALSE
      [] node.tag = "absent" -> FALSE
      [] node.tag = "list" -> node.items /= <<>>
      [] node.tag = "str" -> node.val /= EmptyStr
      [] OTHER -> TRUE

\* Ordered dict: key in d, d.get(key, default), d[key] = value, list(d)
Has(d, k) == \E i \in DOMAIN d : d[i][1] = k

Get(d, k, default) ==
    IF Has(d, k) THEN d[CHOOSE i \in DOMAIN d : d[i][1] = k][2] ELSE default

Put(d, k, v) ==
    IF Has(d, k)
    THEN [i \in DOMAIN d |-> IF d[i][1] = k THEN <<k, v>> ELSE d[i]]
    ELSE Append(d, <<k, v>>)

Keys(d) == [i \in DOMAIN d |-> d[i][1]]

\* Unordered mapping with string keys (metadata.annotations): a function.
NoKeys == [k \in {} |-> EmptyStr]
SetKey(kv, k, v) == [x \in DOMAIN kv \cup {k} |-> IF x = k THEN v ELSE kv[x]]
GetKey(kv, k, default) == IF k \in DOMAIN kv THEN kv[k] ELSE default

-----------------------------------------------------------------------------
(* Names the program gives a meaning to *)

N_operator == <<"operator">>
N_manager == <<"manager">>
N_mustgather == <<"mustgather">>
N_oadp_mustgather == <<"oadp", "_", "mustgather">>
MustGatherKey == "operators.openshift.io/must-gather-image"

\* normalize_name: name.replace("-", "_")
normalize_name(name) ==
    [i \in DOMAIN name |-> IF name[i] = "-" THEN "_" ELSE name[i]]

\* Faulty variant: the fields in the other order.
create_related_image_entry_ImageFirst(name, image) ==
    << <<"image", image>>, <<"name", name>> >>

\* create_related_image_entry: {"name": name, "image": image}
create_related_image_entry(name, image) == << <<"name", name>>, <<"image", image>> >>

-----------------------------------------------------------------------------
(* load_related_images: the three tables, built entry by entry *)

NoTables == [image_map |-> <<>>, env_var_map |-> <<>>, normalized_name_map |-> <<>>]

AddEntry(t, item) ==
    [image_map |-> Put(t.image_map, item.name, item.image),
     env_var_map |-> IF item.env_var /= EmptyStr
                     THEN Put(t.env_var_map, item.env_var, item.image)
                     ELSE t.env_var_map,
     normalized_name_map |->
         Put(t.normalized_name_map, normalize_name(item.name), item.name)]

RECURSIVE LoadEntries(_, _)
LoadEntries(related_images, n) ==
    IF n = 0 THEN NoTables
    ELSE AddEntry(LoadEntries(related_images, n - 1), related_images[n])

load_related_images(related_images) == LoadEntries(related_images, Len(related_images))

-----------------------------------------------------------------------------
(* The document tree *)

MetaMap(annotations) == [tag |-> "map", annotations |-> annotations]
AnnMap(kv) == [tag |-> "map", kv |-> kv]
SpecMap(relatedImages, install) ==
    [tag |-> "map", relatedImages |-> relatedImages, install |-> install]
InstallMap(deployments) ==
    [tag |-> "map", spec |-> [tag |-> "map", deployments |-> deployments]]
InstallNoSpec == [tag |-> "map", spec |-> Absent]
\* deployment["spec"]["template"]["spec"]["containers"], Absent when a key on
\* that path is missing
Deployment(containers) == [containers |-> containers]
Container(image, env) == [image |-> image, env |-> env]
Document(metadata, spec) == [metadata |-> metadata, spec |-> spec]

\* "Ensure metadata structure exists" (lines 130-133, 276-279, 320-323)
EnsureAnnotations(doc) ==
    LET m == IF doc.metadata.tag = "absent" THEN MetaMap(Absent) ELSE doc.metadata
        a == IF m.annotations.tag = "absent" THEN AnnMap(NoKeys) ELSE m.annotations
    IN  [doc EXCEPT !.metadata = MetaMap(a)]

SetAnnotation(doc, key, value) ==
    LET d == EnsureAnnotations(doc)
    IN  [d EXCEPT !.metadata.annotations.kv = SetKey(@, key, value)]

\* metadata.annotations[key] as a node, Absent when a key on the path is missing
Annotation(doc, key) ==
    IF /\ doc.metadata.tag = "map"
       /\ doc.metadata.annotations.tag = "map"
       /\ key \in DOMAIN doc.metadata.annotations.kv
    THEN StrVal(doc.metadata.annotations.kv[key])
    ELSE Absent

\* strftime("%Y-%m-%dT%H:%M:%SZ") of a clock reading: one token per field,
\* the seconds in unary
Timestamp(now) == <<"2026-01-01T00:00:">> \o [i \in 1..now |-> "s"] \o <<"Z">>

\* update_created_at_timestamp
update_created_at_timestamp(doc, now) == SetAnnotation(doc, "createdAt", Timestamp(now))

-----------------------------------------------------------------------------
(* update_related_images_section *)

\* Lines 170-186: exact lookup first, then the normalized-name index.
NoMatch == [found |-> FALSE, name |-> EmptyStr, image |-> EmptyStr]

\* Faulty variant: the normalized-name index is consulted first.
Resolve_NormalizedFirst(upstream_name, imap, nmap) ==
    LET normalized_upstream_name == normalize_name(upstream_name) IN
    IF Has(nmap, normalized_upstream_name)
    THEN LET matched_name == Get(nmap, normalized_upstream_name, EmptyStr)
         IN  [found |-> TRUE, name |-> matched_name,
              image |-> Get(imap, matched_name, EmptyStr)]
    ELSE IF Has(imap, upstream_name)
    THEN [found |-> TRUE, name |-> upstream_name,
          image |-> Get(imap, upstream_name, EmptyStr)]
    ELSE NoMatch

Resolve(upstream_name, imap, nmap) ==
    IF Has(imap, upstream_name)
    THEN [found |-> TRUE, name |-> upstream_name,
          image |-> Get(imap, upstream_name, EmptyStr)]
    ELSE LET normalized_upstream_name == normalize_name(upstream_name) IN
         IF Has(nmap, normalized_upstream_name)
         THEN LET matched_name == Get(nmap, normalized_upstream_name, EmptyStr)
              IN  [found |-> TRUE, name |-> matched_name,
                   image |-> Get(imap, matched_name, EmptyStr)]
         ELSE NoMatch

\* Line 188: "if matched_name and new_image" (both found and non-empty)
Matched(item, imap, nmap) ==
    LET r == Resolve(Get(item, "name", EmptyStr), imap, nmap)
    IN  r.found /\ r.name /= EmptyStr /\ r.image /= EmptyStr

\* Line 190: the record is rewritten when its image or its name differs
NeedsUpdate(item, imap, nmap) ==
    LET upstream_name == Get(item, "name", EmptyStr)
        r == Resolve(upstream_name, imap, nmap)
    IN  /\ Matched(item, imap, nmap)
        /\ (Get(item, "image", EmptyStr) /= r.image \/ upstream_name /= r.name)

\* Faulty variant: item["image"] = new_image, the record otherwise kept.
UpdateItem_ImageOnly(item, imap, nmap) ==
    LET r == Resolve(Get(item, "name", EmptyStr), imap, nmap)
    IN  IF NeedsUpdate(item, imap, nmap) THEN Put(item, "image", r.image) ELSE item

\* Lines 196-201: item.clear(); item.update(new_entry)
UpdateItem(item, imap, nmap) ==
    LET r == Resolve(Get(item, "name", EmptyStr), imap, nmap)
    IN  IF NeedsUpdate(item, imap, nmap)
        THEN create_related_image_entry(r.name, r.image)
        ELSE item

\* Faulty variant: mapping entries the list does not name are appended to it.
update_related_images_section_Appends(doc, imap, nmap) ==
    LET spec == IF doc.spec.tag = "absent" THEN SpecMap(Absent, Absent) ELSE doc.spec
        items == IF spec.relatedImages.tag = "absent" THEN <<>> ELSE spec.relatedImages.items
        updated == [i \in DOMAIN items |-> UpdateItem(items[i], imap, nmap)]
        missing == SelectSeq(imap, LAMBDA e : \A i \in DOMAIN updated :
                                                Get(updated[i], "name", EmptyStr) /= e[1])
    IN  [doc |-> [doc EXCEPT !.spec = [spec EXCEPT !.relatedImages =
                    ListOf(updated \o [i \in DOMAIN missing |->
                              create_related_image_entry(missing[i][1], missing[i][2])])]],
         updated |-> Cardinality({i \in DOMAIN items : NeedsUpdate(items[i], imap, nmap)}),
         out |-> {"ri_updated_count"}]

update_related_images_section(doc, imap, nmap) ==
    LET spec == IF doc.spec.tag = "absent" THEN SpecMap(Absent, Absent) ELSE doc.spec
    IN  IF spec.relatedImages.tag = "absent"
        THEN [doc |-> [doc EXCEPT !.spec = [spec EXCEPT !.relatedImages =
                          ListOf([i \in DOMAIN imap |->
                                    create_related_image_entry(imap[i][1], imap[i][2])])]],
              updated |-> 0,
              out |-> {"ri_warning_created"}]
        ELSE LET items == spec.relatedImages.items IN
             [doc |-> [doc EXCEPT !.spec = [spec EXCEPT !.relatedImages =
                          ListOf([i \in DOMAIN items |-> UpdateItem(items[i], imap, nmap)])]],
              updated |-> Cardinality({i \in DOMAIN items : NeedsUpdate(items[i], imap, nmap)}),
              out |-> {"ri_updated_count"}
                      \cup (IF \E i \in DOMAIN items : ~Matched(items[i], imap, nmap)
                            THEN {"ri_no_match"} ELSE {})]

-----------------------------------------------------------------------------
(* Navigation of spec.install.spec.deployments, as Python subscripting does  *)
(* it: a missing key is a KeyError, subscripting None or a str with a key is *)
(* a TypeError, an index past the end of a list is an IndexError.            *)

Ok(node) == [err |-> "none", val |-> node]
Err(e) == [err |-> e, val |-> Absent]

\* csv_data["spec"]["install"]["spec"]["deployments"]
NavDeployments(doc) ==
    IF doc.spec.tag = "absent" THEN Err("KeyError")
    ELSE IF doc.spec.install.tag = "absent" THEN Err("KeyError")
    ELSE IF doc.spec.install.tag = "null" THEN Err("TypeError")
    ELSE IF doc.spec.install.spec.tag = "absent" THEN Err("KeyError")
    ELSE IF doc.spec.install.spec.deployments.tag = "absent" THEN Err("KeyError")
    ELSE Ok(doc.spec.install.spec.deployments)

\* deployments[0]["spec"]["template"]["spec"]["containers"]
NavContainers(deployments) ==
    CASE deployments.tag = "null" -> Err("TypeError")
      [] deployments.tag = "str" -> Err("TypeError")
      [] deployments.tag = "list" ->
            IF deployments.items = <<>> THEN Err("IndexError")
            ELSE IF deployments.items[1].containers.tag = "absent" THEN Err("KeyError")
            ELSE Ok(deployments.items[1].containers)

\* Faulty variant: the loop has no break, the last container with "env" wins.
ManagerContainer_Last(containers) ==
    IF \E i \in DOMAIN containers : containers[i].env.tag /= "absent"
    THEN CHOOSE i \in DOMAIN containers :
            /\ containers[i].env.tag /= "absent"
            /\ \A j \in (i + 1)..Len(containers) : containers[j].env.tag = "absent"
    ELSE 0

\* Lines 234-237: the first container with an "env" key, 0 if there is none
ManagerContainer(containers) ==
    IF \E i \in DOMAIN containers : containers[i].env.tag /= "absent"
    THEN CHOOSE i \in DOMAIN containers :
            /\ containers[i].env.tag /= "absent"
            /\ \A j \in 1..(i - 1) : containers[j].env.tag = "absent"
    ELSE 0

\* Faulty variant: every mapped env entry is reported and written, equal or not.
EnvNeedsUpdate_Always(env_var, emap) == Has(emap, Get(env_var, "name", EmptyStr))

\* Lines 246-258 for one env entry
EnvNeedsUpdate(env_var, emap) ==
    LET env_name == Get(env_var, "name", EmptyStr)
    IN  /\ Has(emap, env_name)
        /\ Get(env_var, "value", EmptyStr) /= Get(emap, env_name, EmptyStr)

UpdateEnvVar(env_var, emap) ==
    IF EnvNeedsUpdate(env_var, emap)
    THEN Put(env_var, "value", Get(emap, Get(env_var, "name", EmptyStr), EmptyStr))
    ELSE env_var

\* Faulty variant: except IndexError alone.
Caught_IndexErrorOnly(e) == e = "IndexError"

\* Lines 262, 307: except (KeyError, IndexError)
Caught(e) == e \in {"KeyError", "IndexError"}

EnvResult(doc, updated, o, e) == [doc |-> doc, updated |-> updated, out |-> o, exc |-> e]

update_environment_variables(doc, emap) ==
    LET nav == NavDeployments(doc) IN
    IF nav.err /= "none"
    THEN IF Caught(nav.err) THEN EnvResult(doc, 0, {"env_error"}, "none")
         ELSE EnvResult(doc, 0, {}, nav.err)
    ELSE IF ~Truthy(nav.val)
    THEN EnvResult(doc, 0, {"env_warning_no_deployments"}, "none")
    ELSE LET c == NavContainers(nav.val) IN
    IF c.err /= "none"
    THEN IF Caught(c.err) THEN EnvResult(doc, 0, {"env_error"}, "none")
         ELSE EnvResult(doc, 0, {}, c.err)
    ELSE IF ~Truthy(c.val)
    THEN EnvResult(doc, 0, {"env_warning_no_containers"}, "none")
    ELSE LET m == ManagerContainer(c.val.items) IN
    IF m = 0
    THEN EnvResult(doc, 0, {"env_warning_no_env"}, "none")
    ELSE LET env == c.val.items[m].env IN
    IF env.tag /= "list"
    THEN EnvResult(doc, 0, {}, "TypeError")
    ELSE EnvResult(
            [doc EXCEPT !.spec.install.spec.deployments.items[1].containers.items[m].env.items =
                [j \in DOMAIN env.items |-> UpdateEnvVar(env.items[j], emap)]],
            Cardinality({j \in DOMAIN env.items : EnvNeedsUpdate(env.items[j], emap)}),
            {"env_updated_count"}, "none")

-----------------------------------------------------------------------------
(* The operator image and its three consumers *)

\* image_map.get(a) or image_map.get(b): the first when it is non-empty
FirstNonEmpty(imap, a, b) ==
    IF Get(imap, a, EmptyStr) /= EmptyStr THEN Get(imap, a, EmptyStr)
    ELSE Get(imap, b, EmptyStr)

\* Faulty variant: manager before operator.
OperatorImage_ManagerFirst(imap) == FirstNonEmpty(imap, N_manager, N_operator)

OperatorImage(imap) == FirstNonEmpty(imap, N_operator, N_manager)
MustGatherImage(imap) == FirstNonEmpty(imap, N_mustgather, N_oadp_mustgather)

Result(doc, o, e) == [doc |-> doc, out |-> o, exc |-> e]

update_container_image_annotation(doc, imap) ==
    LET operator_image == OperatorImage(imap) IN
    IF operator_image = EmptyStr
    THEN Result(doc, {"annotation_warning_no_operator"}, "none")
    ELSE Result(SetAnnotation(doc, "containerImage", operator_image),
                {"annotation_updated"}, "none")

\* Faulty variant: a missing spec.install is created to hold the image.
update_deployment_container_image_CreatesPath(doc, imap) ==
    LET operator_image == OperatorImage(imap) IN
    IF operator_image = EmptyStr
    THEN Result(doc, {"deployment_warning_no_operator"}, "none")
    ELSE IF doc.spec.tag = "map" /\ doc.spec.install.tag = "absent"
    THEN Result([doc EXCEPT !.spec.install =
                    InstallMap(ListOf(<<Deployment(ListOf(
                        <<Container(StrVal(operator_image), Absent)>>))>>))],
                {"deployment_updated"}, "none")
    ELSE LET nav == NavDeployments(doc)
             c == IF nav.err = "none" THEN NavContainers(nav.val) ELSE nav
         IN  IF c.err /= "none"
             THEN IF Caught(c.err) THEN Result(doc, {"deployment_error"}, "none")
                  ELSE Result(doc, {}, c.err)
             ELSE IF ~Truthy(c.val)
             THEN Result(doc, {}, "none")
             ELSE Result(
                    [doc EXCEPT !.spec.install.spec.deployments.items[1].containers.items[1].image =
                        StrVal(operator_image)],
                    {"deployment_updated"}, "none")

update_deployment_container_image(doc, imap) ==
    LET operator_image == OperatorImage(imap) IN
    IF operator_image = EmptyStr
    THEN Result(doc, {"deployment_warning_no_operator"}, "none")
    ELSE LET nav == NavDeployments(doc)
             c == IF nav.err = "none" THEN NavContainers(nav.val) ELSE nav
         IN  IF c.err /= "none"
             THEN IF Caught(c.err) THEN Result(doc, {"deployment_error"}, "none")
                  ELSE Result(doc, {}, c.err)
             ELSE IF ~Truthy(c.val)
             THEN Result(doc, {}, "none")
             ELSE Result(
                    [doc EXCEPT !.spec.install.spec.deployments.items[1].containers.items[1].image =
                        StrVal(operator_image)],
                    {"deployment_updated"}, "none")

update_must_gather_annotation(doc, imap) ==
    LET mustgather_image == MustGatherImage(imap) IN
    IF mustgather_image = EmptyStr
    THEN Result(doc, {"mustgather_skipped"}, "none")
    ELSE Result(SetAnnotation(doc, MustGatherKey, mustgather_image),
                {"mustgather_updated"}, "none")

-----------------------------------------------------------------------------
(* Files.  A path is a sequence of tokens ending in its extension.  A file  *)
(* is absent, a mapping file, a YAML document or a patch file; what a patch *)
(* file's code does under exec is not the program's to decide, it is an     *)
(* input: it returns or raises, having changed the document or not.         *)

P_related == <<"relatedImages", ".yml">>
P_upstream == <<"upstream", ".yaml">>
P_upstream_csv == <<"upstream", ".csv">>
P_output == <<"output", ".yaml">>
P_csv_config == <<"oadp-csv", ".cfg">>
P_annotations == <<"annotations", ".yaml">>
P_output_annotations == <<"annotations-out", ".yaml">>
P_annotations_config == <<"annotations", ".cfg">>

Paths == {P_related, P_upstream, P_upstream_csv, P_output, P_csv_config,
          P_annotations, P_output_annotations, P_annotations_config}

NoFile == [kind |-> "absent"]
MappingFile(entries) == [kind |-> "mapping", entries |-> entries]
YamlFile(doc) == [kind |-> "yaml", doc |-> doc]
PatchFile(does) == [kind |-> "code", does |-> does]

PatchCodes == {"return", "mutate_return", "raise", "mutate_raise"}

Exists(files, path) == files[path].kind /= "absent"        \* os.path.exists
EndsWithYaml(path) == path /= <<>> /\ path[Len(path)] = ".yaml"

\* What a mutating patch does to the document bound to yd (an example of an
\* arbitrary edit): yd["metadata"]["annotations"]["patched"] = "yes" on the
\* primary document, yd["annotations"]["patched"] = "yes" on the secondary.
PatchedCsv(doc) == SetAnnotation(doc, "patched", <<"yes">>)
PatchedAnnotations(doc) == [doc EXCEPT !.kv = SetKey(@, "patched", <<"yes">>)]

-----------------------------------------------------------------------------
(* The explored inputs *)

N_velero_hyphen == <<"velero", "-", "plugin">>
N_velero_under == <<"velero", "_", "plugin">>
N_other == <<"other">>
N_Operator == <<"Operator">>
IMG1 == <<"img:1">>
IMG2 == <<"img:2">>
OLD == <<"old">>
E_OPERATOR == <<"RELATED_IMAGE_OPERATOR">>
E_VELERO == <<"RELATED_IMAGE_VELERO_PLUGIN">>
E_OTHER == <<"OTHER">>

Entry(name, image, env_var) == [name |-> name, image |-> image, env_var |-> env_var]

Entries ==
    { Entry(N_operator, IMG1, E_OPERATOR),
      Entry(N_manager, IMG2, EmptyStr),
      Entry(N_velero_under, IMG1, E_VELERO),
      Entry(N_velero_hyphen, IMG2, EmptyStr),
      Entry(N_operator, EmptyStr, E_OPERATOR),
      Entry(N_velero_under, IMG2, EmptyStr),
      Entry(N_mustgather, IMG2, EmptyStr) }

SeqsUpTo(S, n) == UNION {[1..k -> S] : k \in 0..n}

MappingFiles == SeqsUpTo(Entries, MaxEntries)

CoreMappingFiles ==
    { <<>>,
      <<Entry(N_operator, IMG1, E_OPERATOR)>>,
      <<Entry(N_manager, IMG2, EmptyStr), Entry(N_velero_under, IMG1, E_VELERO)>> }

Records ==
    { << <<"name", N_velero_hyphen>>, <<"image", OLD>> >>,
      << <<"image", IMG1>>, <<"name", N_velero_under>> >>,
      << <<"name", N_other>>, <<"image", OLD>> >>,
      << <<"name", N_operator>>, <<"image", IMG1>>, <<"displayName", <<"x">> >> >>,
      << <<"image", OLD>> >>,
      << <<"name", N_Operator>>, <<"image", OLD>> >> }

RecordLists == SeqsUpTo(Records, MaxRecords)

Env1 == << << <<"name", E_OPERATOR>>, <<"value", OLD>> >>,
           << <<"name", E_OTHER>>, <<"value", OLD>> >> >>
Env2 == << << <<"name", E_VELERO>> >>,
           << <<"value", OLD>> >>,
           << <<"name", E_OPERATOR>>, <<"value", IMG1>> >> >>

Installs ==
    { Absent,
      Null,
      InstallNoSpec,
      InstallMap(Absent),
      InstallMap(Null),
      InstallMap(StrVal(<<"x">>)),
      InstallMap(ListOf(<<>>)),
      InstallMap(ListOf(<<Deployment(Absent)>>)),
      InstallMap(ListOf(<<Deployment(Null)>>)),
      InstallMap(ListOf(<<Deployment(ListOf(<<>>))>>)),
      InstallMap(ListOf(<<Deployment(ListOf(<<Container(StrVal(OLD), Absent)>>))>>)),
      InstallMap(ListOf(<<Deployment(ListOf(<<Container(Absent, Absent),
                                              Container(StrVal(OLD), ListOf(Env1))>>))>>)),
      InstallMap(ListOf(<<Deployment(ListOf(<<Container(StrVal(OLD), ListOf(Env2)),
                                              Container(StrVal(OLD), ListOf(Env1))>>))>>)),
      InstallMap(ListOf(<<Deployment(ListOf(<<Container(StrVal(OLD), Absent)>>)),
                          Deployment(ListOf(<<Container(StrVal(OLD), ListOf(Env1))>>))>>)),
      InstallMap(ListOf(<<Deployment(ListOf(<<Container(StrVal(OLD), Null)>>))>>)) }

BaseInstall ==
    InstallMap(ListOf(<<Deployment(ListOf(<<Container(Absent, Absent),
                                            Container(StrVal(OLD), ListOf(Env1))>>))>>))

Metadatas ==
    { Absent,
      MetaMap(Absent),
      MetaMap(AnnMap(NoKeys)),
      MetaMap(AnnMap([k \in {"createdAt", "containerImage", "capabilities"} |-> OLD])) }

BaseMetadata == MetaMap(AnnMap([k \in {"createdAt", "containerImage", "capabilities"} |-> OLD]))
BaseRelatedImages == ListOf(<< << <<"name", N_velero_hyphen>>, <<"image", OLD>> >> >>)

\* Documents that differ from the base document in one section.
ListDocuments ==
    {Document(BaseMetadata, SpecMap(ListOf(items), BaseInstall)) : items \in RecordLists}
    \cup {Document(BaseMetadata, SpecMap(Absent, BaseInstall))}

CoreDocuments ==
    {Document(BaseMetadata, SpecMap(BaseRelatedImages, i)) : i \in Installs}
    \cup {Document(m, SpecMap(BaseRelatedImages, BaseInstall)) : m \in Metadatas}
    \cup {Document(BaseMetadata, Absent), Document(Absent, Absent)}

Documents == ListDocuments \cup CoreDocuments

AnnotationsDocument == AnnMap([k \in {"channels"} |-> <<"stable">>])

\* Command lines, before main()'s defaulting.
Args(upstream_csv, output_csv, csv_config, upstream_annotations, output_annotations, annotations_config, dry_run) ==
    [related_images |-> P_related, upstream_csv |-> upstream_csv,
     output_csv |-> output_csv, csv_config |-> csv_config,
     upstream_annotations |-> upstream_annotations,
     output_annotations |-> output_annotations,
     annotations_config |-> annotations_config, dry_run |-> dry_run]

\* --related-images relatedImages.yml --upstream-csv upstream.yaml [--output-csv output.yaml]
InPlaceCommandLine == Args(P_upstream, NoPath, NoPath, NoPath, NoPath, NoPath, FALSE)
OutputCommandLine == Args(P_upstream, P_output, NoPath, NoPath, NoPath, NoPath, FALSE)

CommandLines ==
    { InPlaceCommandLine,
      OutputCommandLine,
      Args(P_upstream_csv, NoPath, NoPath, NoPath, NoPath, NoPath, FALSE),
      Args(P_upstream, NoPath, NoPath, NoPath, NoPath, NoPath, TRUE),
      Args(P_upstream, P_output, P_csv_config, P_annotations, P_output_annotations,
           P_annotations_config, TRUE),
      Args(P_upstream, P_output, P_csv_config, NoPath, NoPath, NoPath, FALSE),
      Args(P_upstream, NoPath, NoPath, P_annotations, NoPath, NoPath, FALSE),
      Args(P_upstream, P_output, NoPath, P_annotations, P_output_annotations,
           P_annotations_config, FALSE),
      Args(P_upstream, P_output, P_csv_config, P_annotations, P_output_annotations,
           P_annotations_config, FALSE) }

\* main(), lines 552-562
ParseArgs(raw) ==
    [raw EXCEPT
        !.output_csv = IF @ = NoPath THEN raw.upstream_csv ELSE @,
        !.output_annotations =
            IF raw.upstream_annotations /= NoPath /\ @ = NoPath
            THEN raw.upstream_annotations ELSE @]

\* The files a command line names; every other path is absent.
PatchFiles(path) == IF path = NoPath THEN {NoFile} ELSE {NoFile} \cup {PatchFile(c) : c \in PatchCodes}
AnnotationsFiles(path) == IF path = NoPath THEN {NoFile} ELSE {NoFile, YamlFile(AnnotationsDocument)}

FileSystem(raw, related, upstream, csv_config, annotations, annotations_config) ==
    [p \in Paths |->
        CASE p = P_related -> related
          [] p = raw.upstream_csv -> upstream
          [] p = P_csv_config -> csv_config
          [] p = P_annotations -> annotations
          [] p = P_annotations_config -> annotations_config
          [] OTHER -> NoFile]

\* Every mapping file and document under the plainest command line ...
ContentInputs ==
    { [raw |-> InPlaceCommandLine,
       files |-> FileSystem(InPlaceCommandLine, MappingFile(m), YamlFile(d),
                            NoFile, NoFile, NoFile)] :
        m \in MappingFiles, d \in Documents }

\* ... and every command line and file situation over the core contents.
ControlInputs ==
    UNION { { [raw |-> raw, files |-> FileSystem(raw, m, d, c, a, ac)] :
                m \in {NoFile} \cup {MappingFile(x) : x \in CoreMappingFiles},
                d \in {NoFile} \cup {YamlFile(x) : x \in CoreDocuments},
                c \in PatchFiles(raw.csv_config),
                a \in AnnotationsFiles(raw.upstream_annotations),
                ac \in PatchFiles(raw.annotations_config) } :
            raw \in CommandLines }

-----------------------------------------------------------------------------
(* The run: main() calling update_csv(), one action per step *)

NoDocument == [tag |-> "unloaded"]

Start(input) ==
    /\ argv = ParseArgs(input.raw)
    /\ fs = input.files
    /\ clock = 1
    /\ pc = "validate"
    /\ image_map = <<>>
    /\ env_var_map = <<>>
    /\ normalized_name_map = <<>>
    /\ csv_data = NoDocument
    /\ annotations_data = NoDocument
    /\ loaded = NoDocument
    /\ out = {}
    /\ ri_updated = 0
    /\ env_updated = 0
    /\ written = {}
    /\ exc = "none"
    /\ exit_code = NoExit
    /\ run = 1
    /\ previous = [ri_updated |-> 0, env_updated |-> 0]

Init == \E input \in ContentInputs \cup ControlInputs : Start(input)

\* An exception leaves update_csv: nothing else of it runs.
Raise(e) == pc' = "raised" /\ exc' = e

\* Faulty variant: only the mapping file is checked.
Validate_MappingOnly ==
    /\ pc = "validate"
    /\ IF ~Exists(fs, argv.related_images)
       THEN Raise("FileNotFoundError")
       ELSE pc' = "load" /\ exc' = exc
    /\ UNCHANGED <<argv, fs, clock, image_map, env_var_map, normalized_name_map,
                   csv_data, annotations_data, loaded, out, ri_updated, env_updated,
                   written, exit_code, run, previous>>

\* Lines 414-419
Validate ==
    /\ pc = "validate"
    /\ IF ~Exists(fs, argv.related_images) \/ ~Exists(fs, argv.upstream_csv)
       THEN Raise("FileNotFoundError")
       ELSE pc' = "load" /\ exc' = exc
    /\ UNCHANGED <<argv, fs, clock, image_map, env_var_map, normalized_name_map,
                   csv_data, annotations_data, loaded, out, ri_updated, env_updated,
                   written, exit_code, run, previous>>

\* Lines 421-423: load_related_images (open() at line 69), then
\* load_csv_manifest (lines 95-106)
Load ==
    /\ pc = "load"
    /\ IF ~Exists(fs, argv.related_images)
       THEN /\ Raise("FileNotFoundError")
            /\ UNCHANGED <<image_map, env_var_map, normalized_name_map, csv_data,
                           loaded, out>>
       ELSE /\ LET t == load_related_images(fs[argv.related_images].entries) IN
                /\ image_map' = t.image_map
                /\ env_var_map' = t.env_var_map
                /\ normalized_name_map' = t.normalized_name_map
            /\ IF ~EndsWithYaml(argv.upstream_csv)
               THEN /\ Raise("ValueError")
                    /\ out' = out \cup {"mapping_loaded"}
                    /\ UNCHANGED <<csv_data, loaded>>
               ELSE IF ~Exists(fs, argv.upstream_csv)
               THEN /\ Raise("FileNotFoundError")
                    /\ out' = out \cup {"mapping_loaded"}
                    /\ UNCHANGED <<csv_data, loaded>>
               ELSE /\ csv_data' = fs[argv.upstream_csv].doc
                    /\ loaded' = fs[argv.upstream_csv].doc
                    /\ out' = out \cup {"mapping_loaded", "csv_loaded"}
                    /\ pc' = "loaded"
                    /\ exc' = exc
    /\ UNCHANGED <<argv, fs, clock, annotations_data, ri_updated, env_updated,
                   written, exit_code, run, previous>>

\* Lines 425-432
DryRun ==
    /\ pc = "loaded"
    /\ argv.dry_run
    /\ out' = out \cup {"dry_run"}
    /\ pc' = "returned"
    /\ UNCHANGED <<argv, fs, clock, image_map, env_var_map, normalized_name_map,
                   csv_data, annotations_data, loaded, ri_updated, env_updated,
                   written, exc, exit_code, run, previous>>

\* Faulty variant: the dry-run flag is not looked at.
UpdateCreatedAt_InDryRun ==
    /\ pc = "loaded"
    /\ csv_data' = update_created_at_timestamp(csv_data, clock)
    /\ out' = out \cup {"created_at_updated"}
    /\ pc' = "related_images"
    /\ UNCHANGED <<argv, fs, clock, image_map, env_var_map, normalized_name_map,
                   annotations_data, loaded, ri_updated, env_updated, written, exc,
                   exit_code, run, previous>>

\* Lines 439-440
UpdateCreatedAt ==
    /\ pc = "loaded"
    /\ ~argv.dry_run
    /\ csv_data' = update_created_at_timestamp(csv_data, clock)
    /\ out' = out \cup {"created_at_updated"}
    /\ pc' = "related_images"
    /\ UNCHANGED <<argv, fs, clock, image_map, env_var_map, normalized_name_map,
                   annotations_data, loaded, ri_updated, env_updated, written, exc,
                   exit_code, run, previous>>

\* Lines 442-443
UpdateRelatedImages ==
    /\ pc = "related_images"
    /\ LET r == update_related_images_section(csv_data, image_map, normalized_name_map) IN
        /\ csv_data' = r.doc
        /\ ri_updated' = r.updated
        /\ out' = out \cup r.out
    /\ pc' = "environment_variables"
    /\ UNCHANGED <<argv, fs, clock, image_map, env_var_map, normalized_name_map,
                   annotations_data, loaded, env_updated, written, exc, exit_code, run, previous>>

\* Lines 445-446
UpdateEnvironmentVariables ==
    /\ pc = "environment_variables"
    /\ LET r == update_environment_variables(csv_data, env_var_map) IN
        /\ csv_data' = r.doc
        /\ env_updated' = r.updated
        /\ out' = out \cup r.out
        /\ IF r.exc /= "none" THEN Raise(r.exc)
           ELSE pc' = "container_image_annotation" /\ exc' = exc
    /\ UNCHANGED <<argv, fs, clock, image_map, env_var_map, normalized_name_map,
                   annotations_data, loaded, ri_updated, written, exit_code, run, previous>>

\* Lines 448-449
UpdateContainerImageAnnotation ==
    /\ pc = "container_image_annotation"
    /\ LET r == update_container_image_annotation(csv_data, image_map) IN
        /\ csv_data' = r.doc
        /\ out' = out \cup r.out
    /\ pc' = "deployment_container_image"
    /\ UNCHANGED <<argv, fs, clock, image_map, env_var_map, normalized_name_map,
                   annotations_data, loaded, ri_updated, env_updated, written, exc,
                   exit_code, run, previous>>

\* Lines 451-452
UpdateDeploymentContainerImage ==
    /\ pc = "deployment_container_image"
    /\ LET r == update_deployment_container_image(csv_data, image_map) IN
        /\ csv_data' = r.doc
        /\ out' = out \cup r.out
        /\ IF r.exc /= "none" THEN Raise(r.exc)
           ELSE pc' = "must_gather_annotation" /\ exc' = exc
    /\ UNCHANGED <<argv, fs, clock, image_map, env_var_map, normalized_name_map,
                   annotations_data, loaded, ri_updated, env_updated, written,
                   exit_code, run, previous>>

\* Lines 458, 466: where update_csv goes after the rewriters, after the patch
AfterCsvConfig(a) == IF a.upstream_annotations /= NoPath THEN "annotations" ELSE "save_csv"
AfterRewriters(a) == IF a.csv_config /= NoPath THEN "csv_config" ELSE AfterCsvConfig(a)

\* Lines 454-455
UpdateMustGatherAnnotation ==
    /\ pc = "must_gather_annotation"
    /\ LET r == update_must_gather_annotation(csv_data, image_map) IN
        /\ csv_data' = r.doc
        /\ out' = out \cup r.out
    /\ pc' = AfterRewriters(argv)
    /\ UNCHANGED <<argv, fs, clock, image_map, env_var_map, normalized_name_map,
                   annotations_data, loaded, ri_updated, env_updated, written, exc,
                   exit_code, run, previous>>

\* Faulty variant: the except clause reports and does not re-raise.
Exec_Swallows(file, doc, mutated, which) ==
    LET d == IF file.does \in {"mutate_return", "mutate_raise"} THEN mutated ELSE doc IN
    IF file.does \in {"raise", "mutate_raise"}
    THEN [doc |-> d, out |-> {which \o "_patch_error"}, exc |-> "none"]
    ELSE [doc |-> d, out |-> {which \o "_patch_applied"}, exc |-> "none"]

\* exec(config_code, {}, {"yd": doc, ...}) inside try/except Exception: raise
\* (lines 356-364, 390-398): [doc, out, exc]
Exec(file, doc, mutated, which) ==
    LET d == IF file.does \in {"mutate_return", "mutate_raise"} THEN mutated ELSE doc IN
    IF file.does \in {"raise", "mutate_raise"}
    THEN Result(d, {which \o "_patch_error"}, "PatchError")
    ELSE Result(d, {which \o "_patch_applied"}, "none")

\* Lines 338-364
apply_csv_config_changes(files, doc, csv_config_file) ==
    IF ~Exists(files, csv_config_file)
    THEN Result(doc, {"csv_patch_not_found"}, "none")
    ELSE Exec(files[csv_config_file], doc, PatchedCsv(doc), "csv")

\* Lines 371-398
apply_annotations_config_changes(files, doc, annotations_config_file) ==
    IF ~Exists(files, annotations_config_file)
    THEN Result(doc, {"annotations_patch_not_found"}, "none")
    ELSE Exec(files[annotations_config_file], doc, PatchedAnnotations(doc), "annotations")

\* Lines 458-461
ApplyCsvConfig ==
    /\ pc = "csv_config"
    /\ LET r == apply_csv_config_changes(fs, csv_data, argv.csv_config) IN
        /\ csv_data' = r.doc
        /\ out' = out \cup r.out
        /\ IF r.exc /= "none" THEN Raise(r.exc)
           ELSE pc' = AfterCsvConfig(argv) /\ exc' = exc
    /\ UNCHANGED <<argv, fs, clock, image_map, env_var_map, normalized_name_map,
                   annotations_data, loaded, ri_updated, env_updated, written,
                   exit_code, run, previous>>

\* Lines 466-472
LoadAnnotations ==
    /\ pc = "annotations"
    /\ IF ~Exists(fs, argv.upstream_annotations)
       THEN Raise("FileNotFoundError") /\ UNCHANGED annotations_data
       ELSE IF ~EndsWithYaml(argv.upstream_annotations)
       THEN Raise("ValueError") /\ UNCHANGED annotations_data
       ELSE /\ annotations_data' = fs[argv.upstream_annotations].doc
            /\ pc' = IF argv.annotations_config /= NoPath
                     THEN "annotations_config" ELSE "save_annotations"
            /\ exc' = exc
    /\ UNCHANGED <<argv, fs, clock, image_map, env_var_map, normalized_name_map,
                   csv_data, loaded, out, ri_updated, env_updated, written,
                   exit_code, run, previous>>

\* Lines 475-477
ApplyAnnotationsConfig ==
    /\ pc = "annotations_config"
    /\ LET r == apply_annotations_config_changes(fs, annotations_data,
                                                 argv.annotations_config) IN
        /\ annotations_data' = r.doc
        /\ out' = out \cup r.out
        /\ IF r.exc /= "none" THEN Raise(r.exc)
           ELSE pc' = "save_annotations" /\ exc' = exc
    /\ UNCHANGED <<argv, fs, clock, image_map, env_var_map, normalized_name_map,
                   csv_data, loaded, ri_updated, env_updated, written, exit_code, run, previous>>

\* dump_csv_manifest (lines 108-118): the file system afterwards
dump_csv_manifest(files, doc, output_file) == [files EXCEPT ![output_file] = YamlFile(doc)]

\* Lines 479-482
SaveAnnotations ==
    /\ pc = "save_annotations"
    /\ fs' = dump_csv_manifest(fs, annotations_data, argv.output_annotations)
    /\ written' = written \cup {argv.output_annotations}
    /\ pc' = "save_csv"
    /\ UNCHANGED <<argv, clock, image_map, env_var_map, normalized_name_map, csv_data,
                   annotations_data, loaded, out, ri_updated, env_updated, exc,
                   exit_code, run, previous>>

\* Lines 484-491
SaveCsv ==
    /\ pc = "save_csv"
    /\ fs' = dump_csv_manifest(fs, csv_data, argv.output_csv)
    /\ written' = written \cup {argv.output_csv}
    /\ out' = out \cup {"completed"}
    /\ pc' = "returned"
    /\ UNCHANGED <<argv, clock, image_map, env_var_map, normalized_name_map, csv_data,
                   annotations_data, loaded, ri_updated, env_updated, exc, exit_code, run, previous>>

\* main() falls off its end: exit code 0
MainReturn ==
    /\ pc = "returned"
    /\ exit_code' = Exited(0)
    /\ pc' = "exit"
    /\ UNCHANGED <<argv, fs, clock, image_map, env_var_map, normalized_name_map,
                   csv_data, annotations_data, loaded, out, ri_updated, env_updated,
                   written, exc, run, previous>>

\* Lines 577-579: except Exception: print to stderr, sys.exit(1)
MainExcept ==
    /\ pc = "raised"
    /\ out' = out \cup {"stderr_error"}
    /\ exit_code' = Exited(1)
    /\ pc' = "exit"
    /\ UNCHANGED <<argv, fs, clock, image_map, env_var_map, normalized_name_map,
                   csv_data, annotations_data, loaded, ri_updated, env_updated,
                   written, exc, run, previous>>

Next ==
    \/ Validate
    \/ Load
    \/ DryRun
    \/ UpdateCreatedAt
    \/ UpdateRelatedImages
    \/ UpdateEnvironmentVariables
    \/ UpdateContainerImageAnnotation
    \/ UpdateDeploymentContainerImage
    \/ UpdateMustGatherAnnotation
    \/ ApplyCsvConfig
    \/ LoadAnnotations
    \/ ApplyAnnotationsConfig
    \/ SaveAnnotations
    \/ SaveCsv
    \/ MainReturn
    \/ MainExcept

Spec == Init /\ [][Next]_vars

-----------------------------------------------------------------------------
(* A second run of the tool on the output of a first, successful run, with  *)
(* the same mapping file and no patch files.                                *)

\* Runs without patch files: in place over every content, to a separate
\* output path over the core contents.
RerunInputs ==
    ContentInputs \cup
    { [raw |-> OutputCommandLine,
       files |-> FileSystem(OutputCommandLine, MappingFile(m), YamlFile(d),
                            NoFile, NoFile, NoFile)] :
        m \in CoreMappingFiles, d \in CoreDocuments }

InitRerun == \E input \in RerunInputs : Start(input)

Rerun ==
    /\ pc = "exit"
    /\ exit_code = Exited(0)
    /\ run = 1
    /\ argv' = [argv EXCEPT !.upstream_csv = argv.output_csv]
    /\ clock' = clock + 1
    /\ pc' = "validate"
    /\ image_map' = <<>>
    /\ env_var_map' = <<>>
    /\ normalized_name_map' = <<>>
    /\ csv_data' = NoDocument
    /\ annotations_data' = NoDocument
    /\ loaded' = NoDocument
    /\ out' = {}
    /\ previous' = [ri_updated |-> ri_updated, env_updated |-> env_updated]
    /\ ri_updated' = 0
    /\ env_updated' = 0
    /\ written' = {}
    /\ exit_code' = NoExit
    /\ run' = 2
    /\ UNCHANGED <<fs, exc>>

NextRerun ==
    \/ Validate
    \/ Load
    \/ UpdateCreatedAt
    \/ UpdateRelatedImages
    \/ UpdateEnvironmentVariables
    \/ UpdateContainerImageAnnotation
    \/ UpdateDeploymentContainerImage
    \/ UpdateMustGatherAnnotation
    \/ SaveCsv
    \/ MainReturn
    \/ MainExcept
    \/ Rerun

SpecRerun == InitRerun /\ [][NextRerun]_vars

-----------------------------------------------------------------------------
(* What the mapping file says, read off its entries (not off the tables) *)

FileEntries == fs[argv.related_images].entries

HasName(entries, n) == \E k \in DOMAIN entries : entries[k].name = n

\* the image of the last entry named n
FileImage(entries, n) ==
    IF HasName(entries, n)
    THEN entries[CHOOSE k \in DOMAIN entries :
                    /\ entries[k].name = n
                    /\ \A j \in DOMAIN entries : entries[j].name = n => j <= k].image
    ELSE EmptyStr

HasNormalized(entries, n) ==
    \E k \in DOMAIN entries : normalize_name(entries[k].name) = normalize_name(n)

\* the name of the last entry whose normalized name is that of n
FileNormalizedName(entries, n) ==
    entries[CHOOSE k \in DOMAIN entries :
                /\ normalize_name(entries[k].name) = normalize_name(n)
                /\ \A j \in DOMAIN entries :
                      normalize_name(entries[j].name) = normalize_name(n) => j <= k].name

\* the mapping name a record name stands for: itself when it is a mapping
\* name, else the mapping name with the same normalized form
FileName(entries, n) ==
    IF HasName(entries, n) THEN n
    ELSE IF HasNormalized(entries, n) THEN FileNormalizedName(entries, n)
    ELSE EmptyStr

\* the image of the last entry with env_var e
HasEnvVar(entries, e) == e /= EmptyStr /\ \E k \in DOMAIN entries : entries[k].env_var = e

FileEnvImage(entries, e) ==
    entries[CHOOSE k \in DOMAIN entries :
                /\ entries[k].env_var = e
                /\ \A j \in DOMAIN entries : entries[j].env_var = e => j <= k].image

\* the distinct names of the file, in order of first appearance
RECURSIVE FirstNames(_, _)
FirstNames(entries, n) ==
    IF n = 0 THEN <<>>
    ELSE LET rest == FirstNames(entries, n - 1) IN
         IF \E j \in 1..(n - 1) : entries[j].name = entries[n].name
         THEN rest ELSE Append(rest, entries[n].name)

-----------------------------------------------------------------------------
(* The related-images list before and after update_related_images_section *)

HadList ==
    /\ loaded /= NoDocument
    /\ loaded.spec.tag = "map"
    /\ loaded.spec.relatedImages.tag = "list"

HadNoList ==
    /\ loaded /= NoDocument
    /\ (loaded.spec.tag = "absent" \/ loaded.spec.relatedImages.tag = "absent")

Before == loaded.spec.relatedImages.items
After == csv_data.spec.relatedImages.items

AfterRelatedImages == pc = "environment_variables"

NameOf(record) == Get(record, "name", EmptyStr)
ImageOf(record) == Get(record, "image", EmptyStr)

\* C1 as stated: for every mapping entry (n, v), every record named n, or
\* whose normalized name is the normalized n, has image v and the fields name,
\* image in that order.
C1_AsStated ==
    (AfterRelatedImages /\ HadList) =>
        \A k \in DOMAIN FileEntries : \A i \in DOMAIN After :
            (\/ NameOf(After[i]) = FileEntries[k].name
             \/ normalize_name(NameOf(After[i])) = normalize_name(FileEntries[k].name))
            => /\ ImageOf(After[i]) = FileEntries[k].image
               /\ Keys(After[i]) = <<"name", "image">>

\* C1, amended: after update_related_images_section every record whose name
\* is a mapping name n, or failing that has the normalized form of a mapping
\* name n (the last such entry), has name n and the image v of the last entry
\* named n, when n and v are non-empty; its fields are exactly name, image if
\* the step rewrote it, and a record that already had n and v is left as it was.
C1_RecordsFollowMapping ==
    (AfterRelatedImages /\ HadList) =>
        /\ Len(After) = Len(Before)
        /\ \A i \in DOMAIN Before :
            LET n == FileName(FileEntries, NameOf(Before[i]))
                v == FileImage(FileEntries, n)
            IN  (n /= EmptyStr /\ v /= EmptyStr) =>
                    /\ NameOf(After[i]) = n
                    /\ ImageOf(After[i]) = v
                    /\ After[i] /= Before[i] => Keys(After[i]) = <<"name", "image">>
                    /\ (NameOf(Before[i]) = n /\ ImageOf(Before[i]) = v)
                          => After[i] = Before[i]

\* a record renamed through the normalized-name index, next to a record that
\* already had its mapping's name and image and kept its own field order
C1_Witness ==
    /\ AfterRelatedImages /\ HadList
    /\ \E i \in DOMAIN Before :
          /\ NameOf(Before[i]) = N_velero_hyphen
          /\ After[i] = create_related_image_entry(N_velero_under, IMG1)
    /\ \E i \in DOMAIN Before :
          /\ Before[i] = << <<"image", IMG1>>, <<"name", N_velero_under>> >>
          /\ After[i] = Before[i]

C9_ListShapePreserved ==
    (AfterRelatedImages /\ HadList) =>
        /\ Len(After) = Len(Before)
        /\ \A i \in DOMAIN Before :
            /\ (~HasName(FileEntries, NameOf(Before[i]))
                /\ ~HasNormalized(FileEntries, NameOf(Before[i])))
               => After[i] = Before[i]
            /\ After[i] /= Before[i] =>
                  /\ HasName(FileEntries, NameOf(After[i]))
                  /\ \/ NameOf(After[i]) = NameOf(Before[i])
                     \/ normalize_name(NameOf(After[i])) = normalize_name(NameOf(Before[i]))

\* a two-record list whose unmatched first record is untouched and whose
\* second record is rewritten in place
C9_Witness ==
    /\ AfterRelatedImages /\ HadList
    /\ Len(Before) = 2
    /\ NameOf(Before[1]) = N_other /\ After[1] = Before[1]
    /\ NameOf(Before[2]) = N_velero_hyphen /\ After[2] /= Before[2]
    /\ ri_updated = 1

-----------------------------------------------------------------------------
(* Where a run stands *)

Succeeded == pc = "exit" /\ exit_code = Exited(0)
Failed == pc = "exit" /\ exit_code = Exited(1)

DropCreatedAt(doc) ==
    [doc EXCEPT !.metadata.annotations.kv = [k \in (DOMAIN @) \ {"createdAt"} |-> @[k]]]

\* C3: a second run on the output of a first run, with the same mapping file
\* and no patch files, reports no updated related-image record and no updated
\* environment variable, succeeds, and leaves the document as it was but for
\* the createdAt annotation.
C3_RerunChangesNothing ==
    run = 2 =>
        /\ ri_updated = 0
        /\ env_updated = 0
        /\ pc = "exit" =>
              /\ exit_code = Exited(0)
              /\ "ri_updated_count" \in out
              /\ DropCreatedAt(csv_data) = DropCreatedAt(loaded)
              /\ fs[argv.output_csv] = YamlFile(csv_data)

\* a second run, a second later, to a separate output path, on a document in which the first run
\* rewrote a related-image record and an environment variable
C3_Witness ==
    /\ run = 2
    /\ Succeeded
    /\ argv.upstream_csv = P_output
    /\ previous.ri_updated > 0
    /\ previous.env_updated > 0
    /\ Annotation(csv_data, "createdAt") /= Annotation(loaded, "createdAt")

\* C4: in dry-run mode update_csv loads the mapping file and the document and
\* returns; no rewriter or patch runs, the document in memory stays as loaded,
\* and no output path is written.
C4_DryRunChangesNothing ==
    argv.dry_run =>
        /\ pc \in {"validate", "load", "loaded", "returned", "raised", "exit"}
        /\ written = {}
        /\ csv_data = loaded
        /\ loaded /= NoDocument => loaded = fs[argv.upstream_csv].doc
        /\ annotations_data = NoDocument
        /\ out \subseteq {"mapping_loaded", "csv_loaded", "dry_run", "stderr_error"}
        /\ pc = "returned" => {"mapping_loaded", "csv_loaded", "dry_run"} \subseteq out
        /\ argv.output_csv /= argv.upstream_csv => ~Exists(fs, argv.output_csv)
        /\ ~Exists(fs, P_output_annotations)
        /\ (Exists(fs, argv.related_images) /\ Exists(fs, argv.upstream_csv)
            /\ pc = "exit") => exit_code = Exited(0)

\* a dry run that ended, given a patch file that would raise and a separate
\* output path
C4_Witness ==
    /\ argv.dry_run
    /\ Succeeded
    /\ argv.output_csv = P_output
    /\ fs[P_csv_config] = PatchFile("mutate_raise")
    /\ Exists(fs, P_annotations)

NoDeployments(doc) ==
    \/ doc.spec.tag = "absent"
    \/ doc.spec.install.tag = "absent"
    \/ doc.spec.install.tag = "map" /\ doc.spec.install.spec.tag = "absent"
    \/ doc.spec.install.tag = "map" /\ doc.spec.install.spec.tag = "map"
          /\ doc.spec.install.spec.deployments.tag = "absent"

\* C5: when spec.install.spec.deployments or an ancestor of it is absent, the
\* environment-variable rewriter and the deployment-image rewriter each print
\* a warning and raise nothing, the later steps run, and the run ends by
\* writing the primary output unless a patch or the annotations file stops it.
C5_MissingDeploymentsNotFatal ==
    (loaded /= NoDocument /\ NoDeployments(loaded) /\ ~argv.dry_run) =>
        /\ exc \in {"none", "PatchError", "FileNotFoundError"}
        /\ pc \notin {"validate", "load", "loaded", "related_images", "environment_variables"}
              => "env_error" \in out
        /\ pc \notin {"validate", "load", "loaded", "related_images", "environment_variables",
                      "container_image_annotation", "deployment_container_image"}
              => /\ out \cap {"deployment_error", "deployment_warning_no_operator"} /= {}
                 /\ out \cap {"annotation_updated", "annotation_warning_no_operator"} /= {}
        /\ (pc \in {"returned", "exit"} /\ exc = "none")
              => /\ out \cap {"mustgather_updated", "mustgather_skipped"} /= {}
                 /\ argv.output_csv \in written
                 /\ fs[argv.output_csv] = YamlFile(csv_data)
                 /\ "completed" \in out
        /\ (pc = "exit" /\ exc = "none") => exit_code = Exited(0)
        /\ exc = "PatchError" => out \cap {"csv_patch_error", "annotations_patch_error"} /= {}
        /\ exc = "FileNotFoundError" => ~Exists(fs, argv.upstream_annotations)

\* a run on a document without spec.install that warned twice, with an
\* operator image at hand, and wrote its output
C5_Witness ==
    /\ Succeeded
    /\ loaded.spec.tag = "map" /\ loaded.spec.install.tag = "absent"
    /\ {"env_error", "deployment_error"} \subseteq out
    /\ argv.output_csv \in written

\* The first container of the first deployment
HasFirstContainer(doc) ==
    /\ doc.spec.tag = "map"
    /\ doc.spec.install.tag = "map"
    /\ doc.spec.install.spec.tag = "map"
    /\ doc.spec.install.spec.deployments.tag = "list"
    /\ doc.spec.install.spec.deployments.items /= <<>>
    /\ doc.spec.install.spec.deployments.items[1].containers.tag = "list"
    /\ doc.spec.install.spec.deployments.items[1].containers.items /= <<>>

FirstContainer(doc) == doc.spec.install.spec.deployments.items[1].containers.items[1]

PastContainerImageAnnotation ==
    \/ pc \in {"deployment_container_image", "must_gather_annotation", "csv_config",
               "annotations", "annotations_config", "save_annotations", "save_csv"}
    \/ pc \in {"returned", "exit"} /\ exc = "none" /\ ~argv.dry_run

PastDeploymentImage ==
    \/ pc \in {"must_gather_annotation", "csv_config", "annotations",
               "annotations_config", "save_annotations", "save_csv"}
    \/ pc \in {"returned", "exit"} /\ exc = "none" /\ ~argv.dry_run

\* C6 as stated: for an entry named operator with image v the containerImage
\* annotation and the first container's image are v after the run; the
\* manager entry serves only when there is no operator entry.
C6_AsStated ==
    loaded /= NoDocument =>
    /\ \A k \in DOMAIN FileEntries :
          FileEntries[k].name = N_operator =>
            /\ PastContainerImageAnnotation =>
                  Annotation(csv_data, "containerImage") = StrVal(FileEntries[k].image)
            /\ (PastDeploymentImage /\ HasFirstContainer(csv_data)) =>
                  FirstContainer(csv_data).image = StrVal(FileEntries[k].image)
    /\ (~HasName(FileEntries, N_operator) /\ HasName(FileEntries, N_manager)) =>
            /\ PastContainerImageAnnotation =>
                  Annotation(csv_data, "containerImage")
                      = StrVal(FileImage(FileEntries, N_manager))
            /\ (PastDeploymentImage /\ HasFirstContainer(csv_data)) =>
                  FirstContainer(csv_data).image = StrVal(FileImage(FileEntries, N_manager))

ChosenImage(entries) ==
    IF FileImage(entries, N_operator) /= EmptyStr
    THEN FileImage(entries, N_operator)
    ELSE FileImage(entries, N_manager)

\* C6, amended: when the last entry named operator has a non-empty image v,
\* the containerImage annotation and the image of the first container of the
\* first deployment (when it exists) are v after the run; the image of the
\* last entry named manager is used for both only when there is no operator
\* entry or the last one's image is empty; both fields receive the same value,
\* and neither is touched when neither image is non-empty.
C6_OperatorImageApplied ==
    loaded /= NoDocument =>
    LET v == ChosenImage(FileEntries) IN
    /\ PastContainerImageAnnotation =>
          Annotation(csv_data, "containerImage") =
              IF v /= EmptyStr THEN StrVal(v) ELSE Annotation(loaded, "containerImage")
    /\ (PastDeploymentImage /\ HasFirstContainer(csv_data)) =>
          FirstContainer(csv_data).image =
              IF v /= EmptyStr THEN StrVal(v) ELSE FirstContainer(loaded).image

\* a finished run that gave the operator's image, not the manager's, to both
C6_Witness ==
    /\ Succeeded /\ ~argv.dry_run
    /\ HasName(FileEntries, N_manager)
    /\ FileImage(FileEntries, N_operator) = IMG1
    /\ Annotation(csv_data, "containerImage") = StrVal(IMG1)
    /\ HasFirstContainer(csv_data)
    /\ FirstContainer(csv_data).image = StrVal(IMG1)
    /\ FirstContainer(loaded).image /= StrVal(IMG1)

Raises(path) ==
    /\ path /= NoPath
    /\ Exists(fs, path)
    /\ fs[path].does \in {"raise", "mutate_raise"}

\* C7: when the code of an existing patch file raises, the exception is
\* reported and leaves update_csv: no later step runs, no output path is
\* written, and the process exits with code 1.  For the primary patch and for
\* the annotations patch.
C7_PatchFailureAborts ==
    /\ (~argv.dry_run /\ Raises(argv.csv_config)) =>
          /\ pc \notin {"annotations", "annotations_config", "save_annotations",
                        "save_csv", "returned"}
          /\ written = {}
          /\ annotations_data = NoDocument
          /\ "completed" \notin out
          /\ (pc \in {"raised", "exit"} /\ exc = "PatchError") => "csv_patch_error" \in out
          /\ pc = "exit" => exit_code = Exited(1)
    /\ (~argv.dry_run /\ Raises(argv.annotations_config)) =>
          /\ pc \notin {"save_annotations", "save_csv", "returned"}
          /\ written = {}
          /\ "completed" \notin out
          /\ pc = "exit" => exit_code = Exited(1)
    /\ exc = "PatchError" =>
          /\ pc \in {"raised", "exit"}
          /\ out \cap {"csv_patch_error", "annotations_patch_error"} /= {}
          /\ written = {}
          /\ pc = "exit" => exit_code = Exited(1) /\ "stderr_error" \in out

\* a run whose annotations patch raised after the six rewriters and a
\* successful primary patch
C7_Witness ==
    /\ Failed
    /\ exc = "PatchError"
    /\ "csv_patch_applied" \in out
    /\ "annotations_patch_error" \in out
    /\ annotations_data /= NoDocument
    /\ written = {}

\* C8: when the mapping file or the primary document does not exist,
\* update_csv raises FileNotFoundError before anything is loaded, rewritten,
\* patched or written, and the process exits with code 1.
C8_MissingInputFailsFast ==
    (~Exists(fs, argv.related_images) \/ ~Exists(fs, argv.upstream_csv)) =>
        /\ pc \in {"validate", "raised", "exit"}
        /\ pc /= "validate" => exc = "FileNotFoundError"
        /\ out \subseteq {"stderr_error"}
        /\ image_map = <<>> /\ env_var_map = <<>> /\ normalized_name_map = <<>>
        /\ csv_data = NoDocument
        /\ annotations_data = NoDocument
        /\ written = {}
        /\ pc = "exit" => exit_code = Exited(1) /\ "stderr_error" \in out

\* a run that ended with code 1 because only the primary document is missing
C8_Witness ==
    /\ Failed
    /\ Exists(fs, argv.related_images)
    /\ ~Exists(fs, argv.upstream_csv)
    /\ exc = "FileNotFoundError"

AfterEnvironmentVariables == pc = "container_image_annotation"

InstallOf(doc) == IF doc.spec.tag = "map" THEN doc.spec.install ELSE Absent

HasContainers(install) ==
    /\ install.tag = "map"
    /\ install.spec.tag = "map"
    /\ install.spec.deployments.tag = "list"
    /\ install.spec.deployments.items /= <<>>
    /\ install.spec.deployments.items[1].containers.tag = "list"

ContainersOf(install) == install.spec.deployments.items[1].containers.items

HasEnvContainer(install) ==
    /\ HasContainers(install)
    /\ \E c \in DOMAIN ContainersOf(install) : ContainersOf(install)[c].env.tag /= "absent"

FirstEnvContainer(install) ==
    CHOOSE c \in DOMAIN ContainersOf(install) :
        /\ ContainersOf(install)[c].env.tag /= "absent"
        /\ \A d \in DOMAIN ContainersOf(install) :
              ContainersOf(install)[d].env.tag /= "absent" => c <= d

\* C10: update_environment_variables works on the first container of the
\* first deployment that has an env list: afterwards each of its entries whose
\* name is an env_var of the mapping file has the image of the last entry
\* with that env_var as its value and is otherwise as it was, every other
\* entry of it is unchanged, and so is everything else under spec.install
\* (the other containers and deployments with their env lists); with no such
\* container nothing changes.
C10_EnvironmentVariablesFollowMapping ==
    AfterEnvironmentVariables =>
        LET before == InstallOf(loaded)
            after == InstallOf(csv_data)
        IN  IF ~HasEnvContainer(before) THEN after = before /\ env_updated = 0
            ELSE LET m == FirstEnvContainer(before)
                     benv == ContainersOf(before)[m].env
                     aenv == ContainersOf(after)[m].env
                 IN  /\ benv.tag = "list" /\ aenv.tag = "list"
                     /\ [after EXCEPT
                            !.spec.deployments.items[1].containers.items[m].env = benv] = before
                     /\ Len(aenv.items) = Len(benv.items)
                     /\ \A j \in DOMAIN benv.items :
                          LET name == Get(benv.items[j], "name", EmptyStr) IN
                          IF HasEnvVar(FileEntries, name)
                          THEN /\ Get(aenv.items[j], "value", EmptyStr)
                                     = FileEnvImage(FileEntries, name)
                               /\ aenv.items[j] \in
                                     {benv.items[j],
                                      Put(benv.items[j], "value", FileEnvImage(FileEntries, name))}
                          ELSE aenv.items[j] = benv.items[j]

\* the second container is the first with an env list; its mapped entry
\* got the mapping's image and its other entry kept its value
C10_Witness ==
    /\ AfterEnvironmentVariables
    /\ HasEnvContainer(InstallOf(loaded))
    /\ FirstEnvContainer(InstallOf(loaded)) = 2
    /\ env_updated = 1
    /\ ContainersOf(InstallOf(csv_data))[2].env.items =
          << << <<"name", E_OPERATOR>>, <<"value", IMG1>> >>,
             << <<"name", E_OTHER>>, <<"value", OLD>> >> >>

-----------------------------------------------------------------------------
(* Values of the wrong type on the deployment path *)

\* a key on the way to the env list holds None or a string where a mapping or
\* a list is expected
WrongType(doc) ==
    /\ doc.spec.tag = "map"
    /\ \/ doc.spec.install.tag = "null"
       \/ /\ doc.spec.install.tag = "map"
          /\ doc.spec.install.spec.tag = "map"
          /\ doc.spec.install.spec.deployments.tag \in {"null", "str"}
       \/ /\ HasEnvContainer(doc.spec.install)
          /\ ContainersOf(doc.spec.install)[FirstEnvContainer(doc.spec.install)].env.tag
                \notin {"list", "absent"}

\* C11 as stated: whatever is of the wrong type at install, deployments or
\* env, the environment-variable and the deployment-image rewriter return
\* normally: no exception of theirs ends the run, the later steps run and the
\* primary output is written (a raising patch or a missing annotations file
\* aside).
C11_AsStated ==
    (loaded /= NoDocument /\ ~argv.dry_run /\ WrongType(loaded)) =>
        /\ exc \in {"none", "PatchError", "FileNotFoundError"}
        /\ (pc \in {"returned", "exit"} /\ exc = "none")
              => /\ argv.output_csv \in written
                 /\ out \cap {"mustgather_updated", "mustgather_skipped"} /= {}
        /\ (pc = "exit" /\ exc = "none") => exit_code = Exited(0)

-----------------------------------------------------------------------------
(* Name resolution of a related-image record *)

\* str.lower() over the names in use
Lower(name) == [i \in DOMAIN name |-> IF name[i] = "Operator" THEN "operator" ELSE name[i]]

\* C12 as stated: a record whose name is a mapping name gets that name's
\* image and keeps its name; otherwise a record whose normalized name is in
\* the normalized-name index gets the indexed mapping name and its image;
\* otherwise the record is untouched.
C12_AsStated ==
    (AfterRelatedImages /\ HadList) =>
        \A i \in DOMAIN Before :
            LET n == NameOf(Before[i]) IN
            IF HasName(FileEntries, n)
            THEN /\ NameOf(After[i]) = n
                 /\ ImageOf(After[i]) = FileImage(FileEntries, n)
            ELSE IF HasNormalized(FileEntries, n)
            THEN LET m == FileNormalizedName(FileEntries, n) IN
                 /\ NameOf(After[i]) = m
                 /\ ImageOf(After[i]) = FileImage(FileEntries, m)
            ELSE After[i] = Before[i]

\* C12, amended: a record whose name is a mapping name keeps its name and,
\* when that name's image (of its last entry) is non-empty, gets it, whatever
\* other entry normalizes to the same name; otherwise a record whose
\* normalized name is that of a mapping name is renamed to the last such
\* mapping name and gets its image, when that image is non-empty; a record
\* resolved to an empty image, and a record that resolves to nothing (a name
\* differing in case only included), is left as it was.
C12_ExactBeforeNormalized ==
    (AfterRelatedImages /\ HadList) =>
        \A i \in DOMAIN Before :
            LET n == NameOf(Before[i]) IN
            IF HasName(FileEntries, n)
            THEN LET v == FileImage(FileEntries, n) IN
                 /\ NameOf(After[i]) = n
                 /\ IF v /= EmptyStr THEN ImageOf(After[i]) = v
                    ELSE After[i] = Before[i]
            ELSE IF HasNormalized(FileEntries, n)
            THEN LET m == FileNormalizedName(FileEntries, n)
                     v == FileImage(FileEntries, m)
                 IN  IF v /= EmptyStr
                     THEN After[i] = create_related_image_entry(m, v)
                     ELSE After[i] = Before[i]
            ELSE After[i] = Before[i]

\* velero-plugin and velero_plugin are both mapping names, the latter the
\* later: the record velero-plugin kept its name and got its own image, and
\* the record Operator was not taken for operator
C12_Witness ==
    /\ AfterRelatedImages /\ HadList
    /\ Len(FileEntries) = 2
    /\ FileEntries[1] = Entry(N_velero_hyphen, IMG2, EmptyStr)
    /\ FileEntries[2].name = N_velero_under
    /\ FileEntries[2].image = IMG1
    /\ Before = << << <<"name", N_velero_hyphen>>, <<"image", OLD>> >>,
                   << <<"name", N_Operator>>, <<"image", OLD>> >> >>
    /\ After = << << <<"name", N_velero_hyphen>>, <<"image", IMG2>> >>,
                  << <<"name", N_Operator>>, <<"image", OLD>> >> >>
    /\ ri_updated = 1

\* the record velero-plugin, with only velero_plugin a mapping name, was
\* renamed to it; the record Operator, with operator a mapping name, was kept
C12_WitnessNormalized ==
    /\ AfterRelatedImages /\ HadList
    /\ ~HasName(FileEntries, N_velero_hyphen)
    /\ HasName(FileEntries, N_operator)
    /\ FileImage(FileEntries, N_operator) /= EmptyStr
    /\ \E i \in DOMAIN Before :
          /\ NameOf(Before[i]) = N_velero_hyphen
          /\ After[i] = create_related_image_entry(N_velero_under, IMG1)
    /\ \E i \in DOMAIN Before :
          /\ NameOf(Before[i]) = N_Operator
          /\ Lower(NameOf(Before[i])) = N_operator
          /\ After[i] = Before[i]

-----------------------------------------------------------------------------
(* What the rewriters create *)

\* the rewriters ran on the loaded document and no patch touched it
RewritersOnly == loaded /= NoDocument /\ ~argv.dry_run /\ argv.csv_config = NoPath

PastCreatedAt == pc \notin {"validate", "load", "loaded"}
PastRelatedImages == PastCreatedAt /\ pc /= "related_images"
PastEnvironmentVariables == PastRelatedImages /\ pc /= "environment_variables"
PastDeploymentContainerImage ==
    /\ PastEnvironmentVariables
    /\ pc \notin {"container_image_annotation", "deployment_container_image"}

AnnotationKeys(doc) ==
    IF doc.metadata.tag = "map" /\ doc.metadata.annotations.tag = "map"
    THEN DOMAIN doc.metadata.annotations.kv
    ELSE {}

\* a key or an element on the way to the containers is missing
AbsentPath(doc) ==
    \/ NoDeployments(doc)
    \/ /\ doc.spec.install.tag = "map"
       /\ doc.spec.install.spec.tag = "map"
       /\ doc.spec.install.spec.deployments.tag = "list"
       /\ \/ doc.spec.install.spec.deployments.items = <<>>
          \/ doc.spec.install.spec.deployments.items[1].containers.tag = "absent"

\* the containers list is there and empty
NoContainers(doc) ==
    /\ HasContainers(InstallOf(doc))
    /\ ContainersOf(InstallOf(doc)) = <<>>

FileImages == {FileEntries[k].image : k \in DOMAIN FileEntries}

\* an env list afterwards: its entries as they were, or with "value" set
EnvFrame(benv, aenv) ==
    /\ aenv.tag = benv.tag
    /\ IF benv.tag /= "list" THEN aenv = benv
       ELSE /\ Len(aenv.items) = Len(benv.items)
            /\ \A j \in DOMAIN benv.items :
                  \/ aenv.items[j] = benv.items[j]
                  \/ \E v \in FileImages : aenv.items[j] = Put(benv.items[j], "value", v)

\* spec.install afterwards: the same deployments and containers, the first
\* container's image possibly set, env entries possibly given a value
InstallFrame(before, after) ==
    IF ~HasContainers(before) THEN after = before
    ELSE /\ HasContainers(after)
         /\ Len(after.spec.deployments.items) = Len(before.spec.deployments.items)
         /\ \A d \in DOMAIN before.spec.deployments.items :
               d > 1 => after.spec.deployments.items[d] = before.spec.deployments.items[d]
         /\ Len(ContainersOf(after)) = Len(ContainersOf(before))
         /\ \A c \in DOMAIN ContainersOf(before) :
               /\ EnvFrame(ContainersOf(before)[c].env, ContainersOf(after)[c].env)
               /\ \/ ContainersOf(after)[c].image = ContainersOf(before)[c].image
                  \/ /\ c = 1
                     /\ ContainersOf(after)[c].image = StrVal(ChosenImage(FileEntries))

\* no key of an env entry and no image key is new
NoNewKeys(before, after) ==
    HasContainers(before) =>
        /\ HasContainers(after)
        /\ Len(ContainersOf(after)) = Len(ContainersOf(before))
        /\ \A c \in DOMAIN ContainersOf(before) :
              LET b == ContainersOf(before)[c]
                  a == ContainersOf(after)[c]
              IN  /\ a.image.tag = b.image.tag
                  /\ a.env.tag = b.env.tag
                  /\ b.env.tag = "list" =>
                        /\ Len(a.env.items) = Len(b.env.items)
                        /\ \A j \in DOMAIN b.env.items :
                              Keys(a.env.items[j]) = Keys(b.env.items[j])

\* C13 as stated: the rewriters create metadata and metadata.annotations and
\* nothing else: spec, spec.relatedImages and every key under spec.install are
\* present afterwards exactly when they were present before, and a missing
\* deployment or container is reported by a warning.
C13_AsStated ==
    RewritersOnly =>
        /\ csv_data.spec.tag = loaded.spec.tag
        /\ loaded.spec.tag = "map" =>
              csv_data.spec.relatedImages.tag = loaded.spec.relatedImages.tag
        /\ ~HasContainers(InstallOf(loaded)) => InstallOf(csv_data) = InstallOf(loaded)
        /\ NoNewKeys(InstallOf(loaded), InstallOf(csv_data))
        /\ (PastDeploymentContainerImage /\ (AbsentPath(loaded) \/ NoContainers(loaded)))
              => out \cap {"deployment_error", "deployment_warning_no_operator"} /= {}

\* C13, amended: the rewriters create metadata and metadata.annotations (and
\* the annotation keys createdAt, containerImage and the must-gather key),
\* spec and spec.relatedImages when absent (the synthesized list), the value
\* key of a mapped env entry and the image key of the first container. They
\* create no deployment, no container, no env list and no key on the way to
\* them: where a key or element on that way is missing, spec.install is left
\* as it was and each of the two deployment rewriters prints a message; an
\* empty containers list is passed over by the deployment-image rewriter
\* without a message.
C13_CreatesOnlyListedPaths ==
    RewritersOnly =>
        /\ InstallFrame(InstallOf(loaded), InstallOf(csv_data))
        /\ IF PastCreatedAt
           THEN /\ csv_data.metadata.tag = "map"
                /\ csv_data.metadata.annotations.tag = "map"
                /\ AnnotationKeys(csv_data) \subseteq
                      AnnotationKeys(loaded) \cup {"createdAt", "containerImage", MustGatherKey}
           ELSE csv_data.metadata = loaded.metadata
        /\ IF PastRelatedImages
           THEN /\ csv_data.spec.tag = "map"
                /\ csv_data.spec.relatedImages.tag = "list"
                /\ HadList => Len(After) = Len(Before)
           ELSE csv_data.spec = loaded.spec
        /\ (PastEnvironmentVariables /\ AbsentPath(loaded))
              => out \cap {"env_error", "env_warning_no_deployments"} /= {}
        /\ (PastDeploymentContainerImage /\ AbsentPath(loaded))
              => out \cap {"deployment_error", "deployment_warning_no_operator"} /= {}
        /\ (PastEnvironmentVariables /\ NoContainers(loaded))
              => "env_warning_no_containers" \in out
        /\ (PastDeploymentContainerImage /\ NoContainers(loaded))
              => out \cap {"deployment_error", "deployment_updated"} = {}

\* a document with neither metadata nor spec: the run created metadata with
\* its annotations and spec with the synthesized list, left spec.install
\* absent, printed both messages and wrote the output
C13_Witness ==
    /\ RewritersOnly
    /\ Succeeded
    /\ loaded = Document(Absent, Absent)
    /\ OperatorImage(image_map) /= EmptyStr
    /\ AnnotationKeys(csv_data) = {"createdAt", "containerImage"}
    /\ csv_data.spec.relatedImages.tag = "list"
    /\ csv_data.spec.install = Absent
    /\ {"env_error", "deployment_error", "ri_warning_created"} \subseteq out
    /\ argv.output_csv \in written

====
